---- MODULE Spec2Model ----
(***************************************************************************)
(* A model of src/app.py, the Aadhaar service demand dashboard: one run of *)
(* the script from the raw lines of aadhaar_data.csv to the panels it      *)
(* renders.  Text is a sequence of one-character strings, so that the      *)
(* line repair, the header normalisation, the field split and the          *)
(* all-digits test act on characters as the code does.                     *)
(***************************************************************************)
EXTENDS Integers, Sequences, FiniteSets, TLC

VARIABLES
    lines,          \* f.readlines(): the raw lines of the input file
    pc,             \* position of the script
    df,             \* the dataset (load_data's result, then validated)
    service_col,    \* name of the first numeric column
    year_range,     \* (min year, max year) or None
    states,         \* options of the State multiselect
    state_filter,   \* selected states
    cities,         \* options of the City multiselect
    city_filter,    \* selected cities
    top_n,          \* slider value
    filtered,       \* the derived view
    total,          \* "Total Demand"
    avg,            \* "Average Demand"
    city_df,        \* the city distribution table
    pivot,          \* the heatmap matrix
    heat,           \* "none", "computed" or "unavailable"
    table,          \* what st.dataframe shows
    panels,         \* the panels rendered so far
    message         \* st.error / st.warning / st.info / exception raised

vars == <<lines, pc, df, service_col, year_range, states, state_filter, cities,
          city_filter, top_n, filtered, total, avg, city_df, pivot, heat,
          table, panels, message>>

(***************************************************************************)
(* Bounds of the model and constants of the program.                       *)
(***************************************************************************)
MaxRows == 2            \* data lines of a file drawn from LinePool
MaxDistricts == 11      \* data lines (one district each) of the largest wide file
MaxSel == 2             \* options picked in one multiselect

MinCommas == 2          \* l.count(",") >= 2
TopNMin == 5            \* st.slider(..., 5, 15, 8)
TopNMax == 15
HeatTop == 10           \* .head(10)

None == [k |-> "none"]
NaN == [k |-> "nan"]    \* NaN and NaT alike: a missing value
Str(s) == [k |-> "str", s |-> s]
Number(n) == [k |-> "num", n |-> n]
Datetime(y) == [k |-> "date", y |-> y]   \* only .dt.year is ever read

(***************************************************************************)
(* Characters and text.                                                    *)
(***************************************************************************)
Digits == <<"0", "1", "2", "3", "4", "5", "6", "7", "8", "9">>
Uppers == <<"A", "B", "C", "D", "E", "F", "G", "H", "I", "J", "K", "L", "M",
            "N", "O", "P", "Q", "R", "S", "T", "U", "V", "W", "X", "Y", "Z">>
Lowers == <<"a", "b", "c", "d", "e", "f", "g", "h", "i", "j", "k", "l", "m",
            "n", "o", "p", "q", "r", "s", "t", "u", "v", "w", "x", "y", "z">>
Whitespace == {" ", "\t", "\n", "\r"}

\* Code points in increasing order, as far as the model's text uses them.
Alphabet == <<"\t", "\n", "\r", " ", ",", "-">> \o Digits \o Uppers \o Lowers

Range(s) == {s[i] : i \in 1..Len(s)}
IndexOf(s, x) == CHOOSE i \in 1..Len(s) : s[i] = x
Ord(c) == IndexOf(Alphabet, c)
IsDigit(c) == c \in Range(Digits)
DigitVal(c) == IndexOf(Digits, c) - 1

\* str.lower() on one character
LowerChar(c) == IF c \in Range(Uppers) THEN Lowers[IndexOf(Uppers, c)] ELSE c
\* str.lower()
Lower(s) == [i \in 1..Len(s) |-> LowerChar(s[i])]

\* str.strip()
RECURSIVE LStrip(_)
LStrip(s) == IF s # <<>> /\ s[1] \in Whitespace THEN LStrip(Tail(s)) ELSE s
RECURSIVE RStrip(_)
RStrip(s) ==
    IF s # <<>> /\ s[Len(s)] \in Whitespace
    THEN RStrip(SubSeq(s, 1, Len(s) - 1))
    ELSE s
Strip(s) == RStrip(LStrip(s))

\* str.count(c)
CountChar(s, c) == Cardinality({i \in 1..Len(s) : s[i] = c})

\* re.fullmatch(r"\d+", x): one or more characters, all of them digits
FullMatchDigits(x) == x # <<>> /\ \A i \in 1..Len(x) : IsDigit(x[i])

\* int of a digit string
RECURSIVE DigitsValue(_)
DigitsValue(s) ==
    IF s = <<>> THEN 0
    ELSE 10 * DigitsValue(SubSeq(s, 1, Len(s) - 1)) + DigitVal(s[Len(s)])

\* Python's order on str: by code point, a proper prefix first
RECURSIVE TextLess(_, _)
TextLess(a, b) ==
    IF b = <<>> THEN FALSE
    ELSE IF a = <<>> THEN TRUE
    ELSE IF a[1] # b[1] THEN Ord(a[1]) < Ord(b[1])
    ELSE TextLess(Tail(a), Tail(b))

(***************************************************************************)
(* load_data: line repair, parse, header normalisation, date parsing.      *)
(***************************************************************************)
\* KeepLine without the count of commas
KeepLineNonBlank(l) == Strip(l) # <<>>

\* the condition of the list comprehension at line 34
KeepLine(l) == Strip(l) # <<>> /\ CountChar(l, ",") >= MinCommas

\* clean = [l for l in lines if ...]
Clean(ls) == SelectSeq(ls, KeepLine)

\* The parser's record split: the line terminator is not part of a record.
Chomp(l) == IF l # <<>> /\ l[Len(l)] = "\n" THEN SubSeq(l, 1, Len(l) - 1) ELSE l

\* The parser's field split at the commas.
RECURSIVE Fields(_)
Fields(l) ==
    IF \E i \in 1..Len(l) : l[i] = ","
    THEN LET i == CHOOSE j \in 1..Len(l) :
                      l[j] = "," /\ \A h \in 1..(j - 1) : l[h] # ","
         IN  <<SubSeq(l, 1, i - 1)>> \o Fields(SubSeq(l, i + 1, Len(l)))
    ELSE <<l>>

\* A field the parser reads as an integer.
IsNumeral(f) ==
    \/ FullMatchDigits(f)
    \/ f # <<>> /\ f[1] = "-" /\ FullMatchDigits(Tail(f))
NumeralValue(f) == IF f[1] = "-" THEN 0 - DigitsValue(Tail(f)) ELSE DigitsValue(f)

\* Field j of a record; a short record is padded with missing values.
FieldAt(rec, j) == IF j <= Len(rec) THEN rec[j] ELSE <<>>

\* dtype inference: a column is numeric when it has rows and every field of
\* it is empty or a numeral; otherwise it is an object column of str.
NumericColumn(recs, j) ==
    /\ recs # <<>>
    /\ \A i \in 1..Len(recs) :
          FieldAt(recs[i], j) = <<>> \/ IsNumeral(FieldAt(recs[i], j))

ParseCell(recs, i, j) ==
    LET f == FieldAt(recs[i], j)
    IN  IF f = <<>> THEN NaN
        ELSE IF NumericColumn(recs, j) THEN Number(NumeralValue(f))
        ELSE Str(f)

\* pd.read_csv(io.StringIO("".join(clean))) followed by the normalisation of
\* the column names (line 36).  The first record is the header.
ReadCsv(clean) ==
    LET header == Fields(Chomp(clean[1]))
        recs == [i \in 1..(Len(clean) - 1) |-> Fields(Chomp(clean[i + 1]))]
        names == [j \in 1..Len(header) |-> Strip(Lower(header[j]))]
    IN  [columns |-> names,
         dtype |-> [c \in Range(names) |->
                       IF NumericColumn(recs, IndexOf(names, c))
                       THEN "num" ELSE "obj"],
         rows |-> [i \in 1..Len(recs) |->
                       [c \in Range(names) |->
                           ParseCell(recs, i, IndexOf(names, c))]]]

\* The parser rejects an empty input and a record longer than the header.
ParserError(clean) ==
    \/ clean = <<>>
    \/ \E i \in 2..Len(clean) :
          Len(Fields(Chomp(clean[i]))) > Len(Fields(Chomp(clean[1])))

StateCol == <<"s", "t", "a", "t", "e">>
DistrictCol == <<"d", "i", "s", "t", "r", "i", "c", "t">>
DateCol == <<"d", "a", "t", "e">>
YearCol == <<"y", "e", "a", "r">>

\* Days of month m of year y.
DaysIn(y, m) ==
    IF m = 2
    THEN IF (y % 4 = 0 /\ y % 100 # 0) \/ y % 400 = 0 THEN 29 ELSE 28
    ELSE IF m \in {4, 6, 9, 11} THEN 30 ELSE 31

\* A date text the date parser accepts: YYYY-MM-DD of a calendar day.
IsDateText(f) ==
    /\ Len(f) = 10
    /\ f[5] = "-" /\ f[8] = "-"
    /\ \A i \in {1, 2, 3, 4, 6, 7, 9, 10} : IsDigit(f[i])
    /\ DigitsValue(SubSeq(f, 6, 7)) \in 1..12
    /\ DigitsValue(SubSeq(f, 9, 10)) \in
           1..DaysIn(DigitsValue(SubSeq(f, 1, 4)), DigitsValue(SubSeq(f, 6, 7)))

\* pd.to_datetime(value, errors="coerce") on one cell
ToDatetime(x) ==
    IF x.k = "str"
    THEN IF IsDateText(x.s) THEN Datetime(DigitsValue(SubSeq(x.s, 1, 4))) ELSE NaN
    ELSE IF x.k = "num" THEN Datetime(1970)   \* nanoseconds since the epoch
    ELSE NaN

HasColumn(d, c) == c \in Range(d.columns)

\* lines 38-39
ParseDates(d) ==
    IF HasColumn(d, DateCol)
    THEN [d EXCEPT !.dtype[DateCol] = "date",
                   !.rows = [i \in 1..Len(d.rows) |->
                                [d.rows[i] EXCEPT ![DateCol] = ToDatetime(@)]]]
    ELSE d

load_data(ls) == ParseDates(ReadCsv(Clean(ls)))

(***************************************************************************)
(* Clean text (lines 46-53) and the service column (lines 56-61).          *)
(***************************************************************************)
\* valid_text without the all-digits test
valid_text_any_str(x) == x.k = "str"

\* isinstance(x, str) and not re.fullmatch(r"\d+", x)
valid_text(x) == x.k = "str" /\ ~FullMatchDigits(x.s)

\* df = df[df[col].apply(valid_text)], when the column exists
KeepValid(d, col) ==
    IF HasColumn(d, col)
    THEN [d EXCEPT !.rows = SelectSeq(@, LAMBDA r : valid_text(r[col]))]
    ELSE d

CleanText(d) == KeepValid(KeepValid(d, StateCol), DistrictCol)

\* df.select_dtypes(include="number").columns.tolist()
numeric_cols(d) == SelectSeq(d.columns, LAMBDA c : d.dtype[c] = "num")

(***************************************************************************)
(* Sorting and sums.                                                       *)
(***************************************************************************)
\* sorted() of a set of str
RECURSIVE SortedText(_)
SortedText(S) ==
    IF S = {} THEN <<>>
    ELSE LET m == CHOOSE x \in S : \A y \in S \ {x} : TextLess(x, y)
         IN  <<m>> \o SortedText(S \ {m})

\* sorted() of a set of int
RECURSIVE SortedInt(_)
SortedInt(S) ==
    IF S = {} THEN <<>>
    ELSE LET m == CHOOSE x \in S : \A y \in S : x <= y
         IN  <<m>> \o SortedInt(S \ {m})

\* Series.sum(): missing values are skipped
RECURSIVE SumCells(_)
SumCells(cells) ==
    IF cells = <<>> THEN 0
    ELSE (IF Head(cells).k = "num" THEN Head(cells).n ELSE 0) + SumCells(Tail(cells))

\* Series.count(): the values that are not missing
CountCells(cells) == Cardinality({i \in 1..Len(cells) : cells[i].k = "num"})

\* d[col] as a sequence of cells
Column(d, col) == [i \in 1..Len(d.rows) |-> d.rows[i][col]]

\* int(): truncation toward zero of a quotient
TruncDiv(a, b) == IF a >= 0 THEN a \div b ELSE 0 - ((0 - a) \div b)

\* SortDescending that leaves the rows in key order
SortSkipped(rows) == rows

\* sort_values(ascending=False) on the summed metric: a stable sort (the
\* tables sorted here have at most 16 rows)
RECURSIVE SortDescending(_)
SortDescending(rows) ==
    IF rows = <<>> THEN <<>>
    ELSE LET i == CHOOSE j \in 1..Len(rows) :
                      /\ \A h \in 1..Len(rows) : rows[h].Demand <= rows[j].Demand
                      /\ \A h \in 1..(j - 1) : rows[h].Demand < rows[j].Demand
         IN  <<rows[i]>> \o
             SortDescending(SubSeq(rows, 1, i - 1) \o SubSeq(rows, i + 1, Len(rows)))

\* .head(n)
HeadN(rows, n) == SubSeq(rows, 1, IF n < Len(rows) THEN n ELSE Len(rows))

(***************************************************************************)
(* Sidebar (lines 64-91).                                                  *)
(***************************************************************************)
\* d[col].dropna().unique() of a text column, as a set of str
UniqueText(d, col) ==
    {d.rows[i][col].s : i \in {j \in 1..Len(d.rows) : d.rows[j][col].k = "str"}}

\* df["date"].dropna().dt.year.unique()
UniqueYears(d) ==
    {d.rows[i][DateCol].y : i \in {j \in 1..Len(d.rows) : d.rows[j][DateCol].k = "date"}}

\* YearRange with the first year as both ends
YearRangeFirst(d) ==
    IF HasColumn(d, DateCol)
    THEN LET years == SortedInt(UniqueYears(d))
         IN  IF years # <<>>
             THEN [k |-> "range", lo |-> years[1], hi |-> years[1]]
             ELSE None
    ELSE None

\* lines 67-71
YearRange(d) ==
    IF HasColumn(d, DateCol)
    THEN LET years == SortedInt(UniqueYears(d))
         IN  IF years # <<>>
             THEN [k |-> "range", lo |-> years[1], hi |-> years[Len(years)]]
             ELSE None
    ELSE None

\* line 73
StateOptions(d) ==
    IF HasColumn(d, StateCol) THEN SortedText(UniqueText(d, StateCol)) ELSE <<>>

\* Series.isin(values) on one cell
IsIn(x, values) == x.k = "str" /\ x.s \in values

\* CityOptions that ignores the selected states
CityOptionsUnbound(d, sel) == SortedText(UniqueText(d, DistrictCol))

\* lines 77-86
CityOptions(d, sel) ==
    IF sel # {}
    THEN SortedText(UniqueText(
             [d EXCEPT !.rows = SelectSeq(@, LAMBDA r : IsIn(r[StateCol], sel))],
             DistrictCol))
    ELSE SortedText(UniqueText(d, DistrictCol))

\* what a multiselect can return: some of its options
Selections(options) == {S \in SUBSET Range(options) : Cardinality(S) <= MaxSel}

(***************************************************************************)
(* Apply filters (lines 94-106).                                           *)
(***************************************************************************)
InYears(x, yr) == x.k = "date" /\ x.y >= yr.lo /\ x.y <= yr.hi

YearFiltered(d, yr) ==
    IF yr # None /\ HasColumn(d, DateCol)
    THEN [d EXCEPT !.rows = SelectSeq(@, LAMBDA r : InYears(r[DateCol], yr))]
    ELSE d

StateFiltered(d, sel) ==
    IF sel # {}
    THEN [d EXCEPT !.rows = SelectSeq(@, LAMBDA r : IsIn(r[StateCol], sel))]
    ELSE d

CityFiltered(d, sel) ==
    IF sel # {}
    THEN [d EXCEPT !.rows = SelectSeq(@, LAMBDA r : IsIn(r[DistrictCol], sel))]
    ELSE d

ApplyFilters(d, yr, ssel, csel) == CityFiltered(StateFiltered(YearFiltered(d, yr), ssel), csel)

(***************************************************************************)
(* Metrics, city distribution and heatmap (lines 113-182).                 *)
(***************************************************************************)
\* the rows of d whose district is c
RowsOfCity(d, c) == SelectSeq(d.rows, LAMBDA r : r[DistrictCol] = Str(c))

\* GroupByDistrict that takes the first row of a group for its sum
GroupByDistrictFirst(d, col) ==
    LET keys == SortedText(UniqueText(d, DistrictCol))
    IN  [i \in 1..Len(keys) |->
            [City |-> keys[i],
             Demand |-> SumCells(<<RowsOfCity(d, keys[i])[1][col]>>)]]

\* filtered.groupby("district")[service_col].sum().reset_index().rename(...)
GroupByDistrict(d, col) ==
    LET keys == SortedText(UniqueText(d, DistrictCol))
    IN  [i \in 1..Len(keys) |->
            [City |-> keys[i],
             Demand |-> SumCells([j \in 1..Len(RowsOfCity(d, keys[i])) |->
                                     RowsOfCity(d, keys[i])[j][col]])]]

\* lines 123-130
CityDf(d, col, n) == HeadN(SortDescending(GroupByDistrict(d, col)), n)

\* NUniqueDistricts that counts rows
NUniqueDistrictsRows(d) == Len(d.rows)

\* filtered["district"].nunique()
NUniqueDistricts(d) == Cardinality(UniqueText(d, DistrictCol))

\* filtered["year"] = filtered["date"].dt.year (line 159)
WithYear(d) ==
    [columns |-> IF HasColumn(d, YearCol) THEN d.columns ELSE Append(d.columns, YearCol),
     dtype |-> [c \in Range(d.columns) \cup {YearCol} |->
                   IF c = YearCol THEN "num" ELSE d.dtype[c]],
     rows |-> [i \in 1..Len(d.rows) |->
                  [c \in Range(d.columns) \cup {YearCol} |->
                      IF c = YearCol
                      THEN IF d.rows[i][DateCol].k = "date"
                           THEN Number(d.rows[i][DateCol].y) ELSE NaN
                      ELSE d.rows[i][c]]]]

\* the years of the rows of d, as a set
UniqueYearValues(d) ==
    {d.rows[i][YearCol].n : i \in {j \in 1..Len(d.rows) : d.rows[j][YearCol].k = "num"}}

\* grouped sums as a sequence in key order, from a set of keys
RECURSIVE YearGroups(_, _, _, _)
YearGroups(d, col, c, years) ==
    IF years = <<>> THEN <<>>
    ELSE LET rs == SelectSeq(RowsOfCity(d, c),
                             LAMBDA r : r[YearCol] = Number(Head(years)))
         IN  (IF rs = <<>> THEN <<>>
              ELSE <<[district |-> c, year |-> Head(years),
                      Demand |-> SumCells([j \in 1..Len(rs) |-> rs[j][col]])]>>)
             \o YearGroups(d, col, c, Tail(years))

RECURSIVE CityYearGroups(_, _, _)
CityYearGroups(d, col, keys) ==
    IF keys = <<>> THEN <<>>
    ELSE YearGroups(d, col, Head(keys), SortedInt(UniqueYearValues(d)))
         \o CityYearGroups(d, col, Tail(keys))

\* filtered.groupby(["district", "year"])[service_col].sum().reset_index():
\* a row with a missing year belongs to no group (lines 161-165)
HeatDf(d, col) == CityYearGroups(d, col, SortedText(UniqueText(d, DistrictCol)))

HeatDistricts(h) == {h[i].district : i \in 1..Len(h)}
HeatYears(h) == {h[i].year : i \in 1..Len(h)}

\* heat_df.groupby("district")[service_col].sum()
HeatTotals(h) ==
    LET keys == SortedText(HeatDistricts(h))
    IN  [i \in 1..Len(keys) |->
            [City |-> keys[i],
             Demand |-> LET rs == SelectSeq(h, LAMBDA g : g.district = keys[i])
                        IN  SumCells([j \in 1..Len(rs) |-> Number(rs[j].Demand)])]]

\* lines 168-174
TopCities(h) ==
    LET top == HeadN(SortDescending(HeatTotals(h)), HeatTop)
    IN  {top[i].City : i \in 1..Len(top)}

\* DataFrame.fillna(0) on one cell
FillNa(x) == IF x = NaN THEN Number(0) ELSE x

\* heat_df.pivot(index="district", columns="year", values=service_col)
PivotTable(h) ==
    [index |-> SortedText(HeatDistricts(h)),
     columns |-> SortedInt(HeatYears(h)),
     values |-> [c \in HeatDistricts(h) |-> [y \in HeatYears(h) |->
                    IF \E i \in 1..Len(h) : h[i].district = c /\ h[i].year = y
                    THEN Number(h[CHOOSE i \in 1..Len(h) :
                                     h[i].district = c /\ h[i].year = y].Demand)
                    ELSE NaN]]]

FillTable(p) ==
    [p EXCEPT !.values = [c \in DOMAIN @ |-> [y \in DOMAIN @[c] |-> FillNa(@[c][y])]]]

\* lines 161-182
HeatPivot(d, col) ==
    LET h == HeatDf(d, col)
        top == TopCities(h)
    IN  FillTable(PivotTable(SelectSeq(h, LAMBDA g : g.district \in top)))

(***************************************************************************)
(* The input files of the model.                                           *)
(***************************************************************************)
RECURSIVE Join(_)
Join(fs) == IF Len(fs) = 1 THEN fs[1] ELSE fs[1] \o <<",">> \o Join(Tail(fs))
Line(fs) == Join(fs) \o <<"\n">>

Goa == <<"G", "o", "a">>
KA == <<"K", "A">>
Day(y) == y \o <<"-", "0", "1", "-", "0", "1">>
Y2021 == <<"2", "0", "2", "1">>
Y2022 == <<"2", "0", "2", "2">>
Y2023 == <<"2", "0", "2", "3">>

HeaderPool ==
    { Line(<<<<"S", "t", "a", "t", "e">>, <<" ", "D", "i", "s", "t", "r", "i", "c", "t", " ">>,
             <<"D", "A", "T", "E">>, <<"c", "o", "u", "n", "t">>>>),
      Line(<<StateCol, DistrictCol, <<"d", "a", "y">>, <<"c", "o", "u", "n", "t">>>>),
      Line(<<StateCol, <<"c", "i", "t", "y">>, DateCol, <<"c", "o", "u", "n", "t">>>>),
      Line(<<<<"r", "e", "g", "i", "o", "n">>, DistrictCol, DateCol, <<"c", "o", "u", "n", "t">>>>) }

LinePool ==
    { Line(<<Goa, <<"P">>, Day(Y2021), <<"5">>>>),
      Line(<<KA, <<"M">>, Day(Y2022), <<"3">>>>),
      Line(<<<<"1", "2">>, <<"M">>, Day(Y2021), <<"4">>>>),       \* all-digit state
      Line(<<KA, <<"7">>, Day(Y2022), <<"1">>>>),                 \* all-digit district
      Line(<<Goa, <<"B">>, <<"x">>>>),                            \* two commas: no date, no metric
      Line(<<KA, <<"M">>, <<>>, <<"-", "2">>>>),                  \* no date
      Line(<<Goa, <<"P">>>>),                                     \* one comma
      <<"\n">> }                                                  \* blank

\* the files of at most n data lines over the pool
RECURSIVE Files(_)
Files(n) ==
    IF n = 0 THEN {<<>>}
    ELSE Files(n - 1) \cup
         {Append(f, l) : f \in {g \in Files(n - 1) : Len(g) = n - 1}, l \in LinePool}

\* A wide file: k districts A, B, C, ... in two states and three years, the
\* metric of the i-th following one of the patterns, and a second line for A.
WidePatterns == {"rising", "equal", "signed"}
WideMetric(i, pat) ==
    IF pat = "rising" THEN <<Digits[(i % 9) + 2]>>
    ELSE IF pat = "equal" THEN <<"2">>
    ELSE IF i % 3 = 0 THEN <<"-", Digits[(i % 9) + 2]>> ELSE <<Digits[(i % 9) + 2]>>
WideLine(i, pat) ==
    Line(<<IF i % 4 = 0 THEN KA ELSE Goa, <<Uppers[i]>>,
           Day(IF i % 3 = 0 THEN Y2021 ELSE IF i % 3 = 1 THEN Y2022 ELSE Y2023),
           WideMetric(i, pat)>>)
WideFile(k, pat) ==
    <<Line(<<StateCol, DistrictCol, DateCol, <<"c", "o", "u", "n", "t">>>>)>>
    \o [i \in 1..k |-> WideLine(i, pat)]
    \o <<Line(<<Goa, <<"A">>, Day(Y2021), <<"1">>>>)>>
WideSizes == {6, MaxDistricts}

InputFiles ==
    {<<h>> \o f : h \in HeaderPool, f \in Files(MaxRows)}
    \cup {WideFile(k, pat) : k \in WideSizes, pat \in WidePatterns}

(***************************************************************************)
(* The run of the script.                                                  *)
(***************************************************************************)
Init ==
    /\ lines \in InputFiles
    /\ pc = "load_data"
    /\ df = None
    /\ service_col = None
    /\ year_range = None
    /\ states = <<>>
    /\ state_filter = {}
    /\ cities = <<>>
    /\ city_filter = {}
    /\ top_n = 0
    /\ filtered = None
    /\ total = 0
    /\ avg = 0
    /\ city_df = <<>>
    /\ pivot = None
    /\ heat = "none"
    /\ table = None
    /\ panels = {}
    /\ message = "none"

\* lines 30-43
LoadData ==
    /\ pc = "load_data"
    /\ IF ParserError(Clean(lines))
       THEN /\ pc' = "raised"
            /\ message' = "ParserError"
            /\ df' = df
       ELSE /\ pc' = "clean_text"
            /\ df' = load_data(lines)
            /\ message' = message
    /\ UNCHANGED <<panels, lines, service_col, year_range, states, state_filter, cities,
                   city_filter, top_n, filtered, total, avg, city_df, pivot, heat,
                   table>>

\* lines 46-53
Validate ==
    /\ pc = "clean_text"
    /\ df' = CleanText(df)
    /\ pc' = "service_column"
    /\ UNCHANGED <<panels, lines, service_col, year_range, states, state_filter, cities,
                   city_filter, top_n, filtered, total, avg, city_df, pivot, heat,
                   table, message>>

\* lines 56-61
ServiceColumn ==
    /\ pc = "service_column"
    /\ IF numeric_cols(df) = <<>>
       THEN /\ message' = "No numeric service column found"
            /\ pc' = "stopped"
            /\ service_col' = service_col
       ELSE /\ service_col' = numeric_cols(df)[1]
            /\ pc' = "sidebar"
            /\ message' = message
    /\ UNCHANGED <<panels, lines, df, year_range, states, state_filter, cities,
                   city_filter, top_n, filtered, total, avg, city_df, pivot, heat,
                   table>>

\* lines 67-74: the year range, the state options, the State multiselect
SelectStates ==
    /\ pc = "sidebar"
    /\ year_range' = YearRange(df)
    /\ states' = StateOptions(df)
    /\ \E sel \in Selections(StateOptions(df)) : state_filter' = sel
    /\ pc' = "city_binding"
    /\ UNCHANGED <<panels, lines, df, service_col, cities, city_filter, top_n, filtered,
                   total, avg, city_df, pivot, heat, table, message>>

\* lines 77-86: the city options bound to the selected states
BindCities ==
    /\ pc = "city_binding"
    /\ IF HasColumn(df, DistrictCol)
       THEN /\ cities' = CityOptions(df, state_filter)
            /\ pc' = "city_select"
            /\ message' = message
       ELSE /\ cities' = cities
            /\ pc' = "raised"
            /\ message' = "KeyError"
    /\ UNCHANGED <<panels, lines, df, service_col, year_range, states, state_filter,
                   city_filter, top_n, filtered, total, avg, city_df, pivot, heat,
                   table>>

\* lines 88-91: the City multiselect and the slider
SelectCities ==
    /\ pc = "city_select"
    /\ \E sel \in Selections(cities) : city_filter' = sel
    /\ \E n \in TopNMin..TopNMax : top_n' = n
    /\ pc' = "apply_filters"
    /\ UNCHANGED <<panels, lines, df, service_col, year_range, states, state_filter, cities,
                   filtered, total, avg, city_df, pivot, heat, table, message>>

\* Filter without the check for an empty view
FilterWithoutStop ==
    /\ pc = "apply_filters"
    /\ filtered' = ApplyFilters(df, year_range, state_filter, city_filter)
    /\ pc' = "metrics"
    /\ UNCHANGED <<panels, lines, df, service_col, year_range, states, state_filter,
                   cities, city_filter, top_n, total, avg, city_df, pivot, heat,
                   table, message>>

\* lines 94-110
Filter ==
    /\ pc = "apply_filters"
    /\ filtered' = ApplyFilters(df, year_range, state_filter, city_filter)
    /\ IF ApplyFilters(df, year_range, state_filter, city_filter).rows = <<>>
       THEN /\ message' = "No data for selected filters"
            /\ pc' = "stopped"
       ELSE /\ message' = message
            /\ pc' = "metrics"
    /\ UNCHANGED <<panels, lines, df, service_col, year_range, states, state_filter, cities,
                   city_filter, top_n, total, avg, city_df, pivot, heat, table>>

\* lines 113-120: int(nan) raises when the metric has no value at all
Metrics ==
    /\ pc = "metrics"
    /\ total' = SumCells(Column(filtered, service_col))
    /\ IF CountCells(Column(filtered, service_col)) = 0
       THEN /\ avg' = avg
            /\ pc' = "raised"
            /\ message' = "ValueError"
            /\ panels' = panels
       ELSE /\ avg' = TruncDiv(SumCells(Column(filtered, service_col)),
                               CountCells(Column(filtered, service_col)))
            /\ pc' = "city_distribution"
            /\ message' = message
            /\ panels' = panels \cup {"metrics"}
    /\ UNCHANGED <<lines, df, service_col, year_range, states, state_filter, cities,
                   city_filter, top_n, filtered, city_df, pivot, heat, table>>

\* lines 123-153
CityDistribution ==
    /\ pc = "city_distribution"
    /\ city_df' = CityDf(filtered, service_col, top_n)
    /\ panels' = panels \cup {"city distribution", "top cities"}
    /\ pc' = "heatmap"
    /\ UNCHANGED <<lines, df, service_col, year_range, states, state_filter, cities,
                   city_filter, top_n, filtered, total, avg, pivot, heat, table,
                   message>>

\* lines 158-201
Heatmap ==
    /\ pc = "heatmap"
    /\ IF HasColumn(filtered, DateCol) /\ NUniqueDistricts(filtered) > 1
       THEN /\ filtered' = WithYear(filtered)
            /\ pivot' = HeatPivot(WithYear(filtered), service_col)
            /\ heat' = "computed"
            /\ panels' = panels \cup {"heatmap"}
            /\ message' = message
       ELSE /\ filtered' = filtered
            /\ pivot' = pivot
            /\ heat' = "unavailable"
            /\ panels' = panels
            /\ message' = "Heatmap requires multiple cities and valid date data."
    /\ pc' = "table"
    /\ UNCHANGED <<lines, df, service_col, year_range, states, state_filter, cities,
                   city_filter, top_n, total, avg, city_df, table>>

\* lines 204-205
DataTable ==
    /\ pc = "table"
    /\ table' = filtered
    /\ panels' = panels \cup {"table"}
    /\ pc' = "done"
    /\ UNCHANGED <<lines, df, service_col, year_range, states, state_filter, cities,
                   city_filter, top_n, filtered, total, avg, city_df, pivot, heat,
                   message>>

Next ==
    \/ LoadData
    \/ Validate
    \/ ServiceColumn
    \/ SelectStates
    \/ BindCities
    \/ SelectCities
    \/ Filter
    \/ Metrics
    \/ CityDistribution
    \/ Heatmap
    \/ DataTable

Spec == Init /\ [][Next]_vars

(***************************************************************************)
(* Vocabulary of the properties.                                           *)
(***************************************************************************)
Loaded == df # None
Validated == Loaded /\ pc # "clean_text"
Filtered == filtered # None
Aggregating == pc \in {"metrics", "city_distribution", "heatmap", "table", "done"}
Distributed == pc \in {"heatmap", "table", "done"}

AllDigits(s) == Len(s) > 0 /\ Range(s) \subseteq Range(Digits)
TextOf(x) == IF x.k = "str" THEN x.s ELSE <<>>
IsText(x) == x.k = "str"

\* the sum of f over a finite set
RECURSIVE SumOver(_, _)
SumOver(S, f) ==
    IF S = {} THEN 0
    ELSE LET x == CHOOSE y \in S : TRUE IN f[x] + SumOver(S \ {x}, f)

\* the metric of row i of d, a missing value counting for nothing
MetricAt(d, i) ==
    IF d.rows[i][service_col].k = "num" THEN d.rows[i][service_col].n ELSE 0
RowIndexes(d) == 1..Len(d.rows)
MetricSum(d, I) == SumOver(I, [i \in I |-> MetricAt(d, i)])
DistrictsOf(d) == {d.rows[i][DistrictCol].s : i \in RowIndexes(d)}
RowsIn(d, c) == {i \in RowIndexes(d) : d.rows[i][DistrictCol] = Str(c)}
DemandOf(d, c) == MetricSum(d, RowsIn(d, c))
TableSum(t) == SumOver(1..Len(t), [i \in 1..Len(t) |-> t[i].Demand])
Min(a, b) == IF a < b THEN a ELSE b

\* C1: once the validator has run, no row of the dataset, of the derived view
\* or of the table shown has a state or a district that is a string of digits only.
NoDigitNames(d) ==
    \A i \in RowIndexes(d) : \A c \in {StateCol, DistrictCol} \cap Range(d.columns) :
        IsText(d.rows[i][c]) => ~AllDigits(d.rows[i][c].s)
C1_ValidatorInvariant ==
    /\ Validated => NoDigitNames(df)
    /\ Filtered => NoDigitNames(filtered)
    /\ table # None => NoDigitNames(table)
\* a run that went through although the file had a kept line with an all-digit
\* state or district
C1_Witness ==
    /\ pc = "done"
    /\ \E l \in Range(lines) :
          /\ CountChar(l, ",") >= 2
          /\ \/ HasColumn(df, StateCol) /\ AllDigits(Fields(Chomp(l))[IndexOf(df.columns, StateCol)])
             \/ AllDigits(Fields(Chomp(l))[IndexOf(df.columns, DistrictCol)])

\* C2: the city options are exactly the distinct districts of the validated
\* rows whose state is selected (of all rows when no state is selected); they
\* are bound after the state selection is read and before the city selection
\* is read, which is drawn from them.
BoundRows ==
    {i \in RowIndexes(df) : state_filter = {} \/ TextOf(df.rows[i][StateCol]) \in state_filter}
C2_CityCascade ==
    /\ pc \in {"city_select", "apply_filters", "metrics", "city_distribution",
               "heatmap", "table", "done"}
          => /\ Range(cities) = {df.rows[i][DistrictCol].s : i \in BoundRows}
             /\ Len(cities) = Cardinality(Range(cities))
    /\ pc \in {"city_binding", "city_select"} => city_filter = {} /\ top_n = 0
    /\ pc \in {"load_data", "clean_text", "service_column", "sidebar", "city_binding"}
          => cities = <<>>
    /\ city_filter \subseteq Range(cities)
\* a selection of states that leaves out some district of the dataset
C2_Witness ==
    /\ pc = "city_select"
    /\ state_filter # {}
    /\ Range(cities) # {}
    /\ Range(cities) # DistrictsOf(df)

\* C3 as stated: total is the sum of the metric over the derived view, and the
\* demands of the city distribution add up to at most total, to exactly total
\* when the view has at most top_n districts.
C3_AsStated ==
    Distributed =>
        /\ total = MetricSum(filtered, RowIndexes(filtered))
        /\ TableSum(city_df) <= total
        /\ Cardinality(DistrictsOf(filtered)) <= top_n => TableSum(city_df) = total
\* C3, amended: the inequality holds when no metric value of the view is negative.
NoNegativeMetric(d) == \A i \in RowIndexes(d) : MetricAt(d, i) >= 0
C3_AggregationCorrect ==
    Distributed =>
        /\ total = MetricSum(filtered, RowIndexes(filtered))
        /\ NoNegativeMetric(filtered) => TableSum(city_df) <= total
        /\ Cardinality(DistrictsOf(filtered)) <= top_n => TableSum(city_df) = total
\* a view of more districts than top_n with positive demand left out, and a
\* view of several rows for one district that is not truncated
C3_Witness ==
    /\ pc = "done"
    /\ NoNegativeMetric(filtered)
    /\ Cardinality(DistrictsOf(filtered)) > top_n
    /\ TableSum(city_df) < total

\* the row of the dataset a row of the derived view was copied from
Base(r) == [c \in Range(df.columns) |-> r[c]]
BaseRows(d) == [i \in RowIndexes(d) |-> Base(d.rows[i])]

\* the three filters as one predicate on a row of the dataset
Selected(r) ==
    /\ (year_range # None /\ HasColumn(df, DateCol))
          => /\ r[DateCol].k = "date"
             /\ year_range.lo <= r[DateCol].y
             /\ r[DateCol].y <= year_range.hi
    /\ state_filter # {} => TextOf(r[StateCol]) \in state_filter
    /\ city_filter # {} => TextOf(r[DistrictCol]) \in city_filter

NothingAggregated ==
    /\ panels = {} /\ city_df = <<>>
    /\ pivot = None /\ heat = "none" /\ table = None

\* C4: a derived view of no rows ends the run with the warning before any
\* aggregation; aggregation runs only on a non-empty view, which holds exactly
\* the rows of the dataset that pass the year, state and city filters.
C4_EmptyResult ==
    /\ (Filtered /\ filtered.rows = <<>>)
          => /\ pc = "stopped"
             /\ message = "No data for selected filters"
             /\ NothingAggregated
    /\ Aggregating
          => /\ Filtered
             /\ filtered.rows # <<>>
             /\ BaseRows(filtered) = SelectSeq(df.rows, Selected)
    /\ ~Aggregating /\ pc # "raised" => NothingAggregated /\ total = 0 /\ avg = 0
\* a state is selected, the dataset has rows, and no row passes
C4_Witness ==
    /\ pc = "stopped"
    /\ state_filter # {}
    /\ Filtered
    /\ filtered.rows = <<>>
    /\ df.rows # <<>>

\* the districts of the matrix and the years of its columns
MatrixRows == Range(pivot.index)
MatrixColumns == Range(pivot.columns)
CellRows(d, c, y) ==
    {i \in RowsIn(d, c) : d.rows[i][DateCol] = Datetime(y)}

\* C5 as stated: the matrix has a row for each of the (at most 10) districts of
\* largest demand over the derived view and a column per year; a cell without
\* a row of the view is 0; any other cell is the sum over the rows of its
\* district and year.
C5_HeatmapMatrix ==
    heat = "computed" =>
        /\ MatrixRows \subseteq DistrictsOf(filtered)
        /\ Cardinality(MatrixRows) = Min(HeatTop, Cardinality(DistrictsOf(filtered)))
        /\ Len(pivot.index) = Cardinality(MatrixRows)
        /\ \A c \in MatrixRows : \A o \in DistrictsOf(filtered) \ MatrixRows :
              DemandOf(filtered, o) <= DemandOf(filtered, c)
        /\ MatrixColumns =
              {y \in 1900..2100 : \E c \in MatrixRows : CellRows(filtered, c, y) # {}}
        /\ Len(pivot.columns) = Cardinality(MatrixColumns)
        /\ \A c \in MatrixRows : \A y \in MatrixColumns :
              pivot.values[c][y] =
                  IF CellRows(filtered, c, y) = {} THEN Number(0)
                  ELSE Number(MetricSum(filtered, CellRows(filtered, c, y)))
\* the same, of a derived view that has a parseable date
C5_HeatmapMatrixOfDatedView ==
    (/\ heat = "computed"
     /\ \E i \in RowIndexes(filtered) : filtered.rows[i][DateCol].k = "date")
        => C5_HeatmapMatrix
C5_Witness ==
    /\ heat = "computed"
    /\ Cardinality(DistrictsOf(filtered)) > HeatTop
    /\ \E c \in MatrixRows : \E y \in MatrixColumns : CellRows(filtered, c, y) = {}

\* C6: the pivot is attempted only on a view with a date column and more than
\* one district; otherwise the run reports that the heatmap is unavailable and
\* attempts no pivot; either way the other panels are produced.
HeatmapPossible ==
    /\ DateCol \in Range(filtered.columns)
    /\ \E i, j \in RowIndexes(filtered) :
          filtered.rows[i][DistrictCol] # filtered.rows[j][DistrictCol]
WellFormed(l) == Len(Fields(l)) >= 3 /\ \E i \in 1..Len(l) : l[i] \notin Whitespace
WellFormedLines == SelectSeq(lines, WellFormed)

\* a cell holds what the field says; a date cell holds a date or nothing
CellOfField(x, f, dtype) ==
    IF f = <<>> THEN x = NaN
    ELSE IF dtype = "date" THEN x.k \in {"date", "nan"}
    ELSE IF dtype = "num" THEN x.k = "num" /\ IsNumeral(f) /\ x.n = NumeralValue(f)
    ELSE x.k = "str" /\ x.s = f
RowOfLine(d, r, l) ==
    \A j \in 1..Len(d.columns) :
        CellOfField(r[d.columns[j]], FieldAt(Fields(Chomp(l)), j), d.dtype[d.columns[j]])

\* C7: the loaded dataset has one row for each line of the file with at least
\* two commas after the header, in the order of the file, and none for a line
\* that is blank or has fewer commas.
C7_LineRepair ==
    pc = "clean_text" =>
        /\ Len(df.rows) = Len(WellFormedLines) - 1
        /\ \A i \in 1..Len(df.rows) : RowOfLine(df, df.rows[i], WellFormedLines[i + 1])
\* a file with a dropped line before a kept one
C7_Witness ==
    /\ pc = "clean_text"
    /\ Len(df.rows) >= 1
    /\ \E i \in 1..(Len(lines) - 1) : ~WellFormed(lines[i]) /\ WellFormed(lines[i + 1])

\* C8: the city distribution has one row for each district of the derived view
\* up to top_n rows, each with the summed metric of its district, in descending
\* order of demand, and no district left out has more demand than one kept.
TableCities(t) == {t[i].City : i \in 1..Len(t)}
C8_CityDistribution ==
    Distributed =>
        /\ top_n \in TopNMin..TopNMax
        /\ Len(city_df) = Min(top_n, Cardinality(DistrictsOf(filtered)))
        /\ Cardinality(TableCities(city_df)) = Len(city_df)
        /\ \A i \in 1..Len(city_df) :
              /\ city_df[i].City \in DistrictsOf(filtered)
              /\ city_df[i].Demand = DemandOf(filtered, city_df[i].City)
        /\ \A i \in 1..(Len(city_df) - 1) : city_df[i].Demand >= city_df[i + 1].Demand
        /\ \A o \in DistrictsOf(filtered) \ TableCities(city_df) :
              \A i \in 1..Len(city_df) : DemandOf(filtered, o) <= city_df[i].Demand
\* a truncated table whose rows differ in demand
C8_Witness ==
    /\ pc = "done"
    /\ Cardinality(DistrictsOf(filtered)) > top_n
    /\ city_df[1].Demand > city_df[Len(city_df)].Demand

\* C9 as stated: the derived view keeps the columns and the rows the filters
\* gave it until the end of the run, and the dataset is not changed either.
C9_NeverMutated ==
    /\ Filtered
          => /\ filtered.columns = df.columns
             /\ filtered.rows = SelectSeq(df.rows, Selected)
    /\ table # None => table.columns = df.columns

\* the years of the parseable dates of the dataset
DatedRows == {i \in RowIndexes(df) : HasColumn(df, DateCol) /\ df.rows[i][DateCol].k = "date"}
DatedYears == {df.rows[i][DateCol].y : i \in DatedRows}
Unselected == state_filter = {} /\ city_filter = {}

\* C10: the year range is the least and the greatest year of the parseable
\* dates of the dataset; with it, the derived view keeps every dated row that
\* the state and city selections allow and no row without a date; without a
\* parseable date no row is removed for its date.
C10_YearRange ==
    /\ pc \in {"city_binding", "city_select", "apply_filters"} \/ Filtered
          => IF DatedRows = {} THEN year_range = None
             ELSE /\ year_range # None
                  /\ year_range.lo \in DatedYears /\ year_range.hi \in DatedYears
                  /\ \A y \in DatedYears : year_range.lo <= y /\ y <= year_range.hi
    /\ Filtered
          => /\ DatedRows # {} =>
                   /\ \A i \in RowIndexes(filtered) : filtered.rows[i][DateCol].k = "date"
                   /\ Unselected => Len(filtered.rows) = Cardinality(DatedRows)
             /\ DatedRows = {} /\ Unselected => BaseRows(filtered) = df.rows
\* no selection, and the year filter alone removes a row without a date
C10_Witness ==
    /\ pc = "metrics"
    /\ Unselected
    /\ DatedRows # {}
    /\ Len(filtered.rows) < Len(df.rows)

====
